---- MODULE Spec2Model ----
(***************************************************************************)
(* Girouette: decorator metadata, group resolution, resource expansion and *)
(* the controller scan of GirouetteProvider.                               *)
(*                                                                         *)
(* Strings the code inspects (patterns, prefixes, names) are sequences of  *)
(* one-character strings; opaque values (middleware functions, matchers)   *)
(* are atoms.  The JavaScript value `undefined` is UNDEF.                  *)
(***************************************************************************)
EXTENDS Naturals, Sequences, FiniteSets, TLC

(***************************************************************************)
(* Bounds                                                                  *)
(***************************************************************************)
MaxPathLen == 2
MaxNameLen == 2
MaxMw == 2
MaxAnnotations == 4
MaxWrites == 2
MaxFilter == 2
MaxEntries == 4
MaxControllers == 2

(***************************************************************************)
(* JavaScript values                                                       *)
(***************************************************************************)
UNDEF == <<"undefined">>

\* JavaScript truthiness of a string-or-undefined value
Truthy(s) == s # UNDEF /\ s # <<>>

\* String.prototype.startsWith
StartsWith(s, p) == Len(s) >= Len(p) /\ SubSeq(s, 1, Len(p)) = p

\* String.prototype.endsWith
EndsWith(s, p) == Len(s) >= Len(p) /\ SubSeq(s, Len(s) - Len(p) + 1, Len(s)) = p

\* String.prototype.slice(1)
Slice1(s) == SubSeq(s, 2, Len(s))

\* property read: a missing own property reads as undefined
Prop(o, k) == IF k \in DOMAIN o THEN o[k] ELSE UNDEF

\* object spread {...a, ...b}: own properties of b override those of a
Spread(a, b) == [k \in (DOMAIN a) \cup (DOMAIN b) |-> IF k \in DOMAIN b THEN b[k] ELSE a[k]]

\* all sequences over S of length at most n
SeqsUpTo(S, n) == UNION {[1..k -> S] : k \in 0..n}

\* sequences without repeated entries
Injective(s) == \A i, j \in 1..Len(s) : i # j => s[i] # s[j]

(***************************************************************************)
(* Group Resolver (providers/girouette_provider.ts)                        *)
(***************************************************************************)
\* a controller without @Group: Reflect.getMetadata gives undefined
NoGroup == [absent |-> UNDEF]

\* `!group`: a group object, even an empty one, is truthy
HasGroup(group) == "absent" \notin DOMAIN group

NoGroupMiddleware == [kind |-> "absent", items |-> <<>>]

\* #prefixRoutePattern(pattern, prefix)
prefixRoutePattern(pattern, prefix) ==
    LET cleanPrefix == IF StartsWith(prefix, <<"/">>) THEN prefix ELSE <<"/">> \o prefix
        cleanPattern == IF StartsWith(pattern, <<"/">>) THEN Slice1(pattern) ELSE pattern
    IN cleanPrefix \o <<"/">> \o cleanPattern

\* mutant: the startsWith guard of the route name is dropped
prefixRouteNameAlways(name, prefix, methodName) ==
    LET routeName == IF Truthy(name) THEN name ELSE methodName
    IN prefix \o <<".">> \o routeName

\* #prefixRouteName(name, prefix, methodName)
prefixRouteName(name, prefix, methodName) ==
    LET routeName == IF Truthy(name) THEN name ELSE methodName
    IN IF StartsWith(routeName, prefix \o <<".">>) THEN routeName
       ELSE prefix \o <<".">> \o routeName

\* mutant: the route's own middleware is put before the group's
mergeMiddlewareRouteFirst(routeMiddleware, groupMiddleware) ==
    LET own == IF routeMiddleware = UNDEF THEN <<>> ELSE routeMiddleware
    IN IF groupMiddleware.kind = "absent" THEN own
       ELSE own \o groupMiddleware.items

\* #mergeMiddleware(routeMiddleware, groupMiddleware)
\* groupMiddleware: kind "single" holds the one entry in items, kind "array"
\* is a JavaScript array (Array.isArray), kind "absent" is undefined
mergeMiddleware(routeMiddleware, groupMiddleware) ==
    LET own == IF routeMiddleware = UNDEF THEN <<>> ELSE routeMiddleware
    IN IF groupMiddleware.kind = "absent" THEN own
       ELSE LET groupArray == IF groupMiddleware.kind = "array"
                              THEN groupMiddleware.items
                              ELSE <<groupMiddleware.items[1]>>
            IN groupArray \o own

\* mutant: the early return is taken only without any group middleware,
\* a group object is always spread over the route
applyGroupConfigurationNoIdentity(route, methodName, group, groupMiddleware) ==
    [k \in (DOMAIN route) \cup {"pattern", "name", "middleware"} |->
        CASE k = "pattern" -> Prop(route, "pattern")
          [] k = "name" ->
                IF Truthy(Prop(route, "name")) THEN route.name ELSE methodName
          [] k = "middleware" ->
                mergeMiddleware(Prop(route, "middleware"), groupMiddleware)
          [] OTHER -> route[k]]

\* #applyGroupConfiguration(route, methodName, group, groupMiddleware)
applyGroupConfiguration(route, methodName, group, groupMiddleware) ==
    IF ~HasGroup(group) /\ groupMiddleware.kind = "absent" THEN route
    ELSE [k \in (DOMAIN route) \cup {"pattern", "name", "middleware"} |->
            CASE k = "pattern" ->
                    IF Truthy(Prop(group, "prefix"))
                    THEN prefixRoutePattern(Prop(route, "pattern"), group.prefix)
                    ELSE Prop(route, "pattern")
              [] k = "name" ->
                    IF Truthy(Prop(group, "name"))
                    THEN prefixRouteName(Prop(route, "name"), group.name, methodName)
                    ELSE IF Truthy(Prop(route, "name")) THEN route.name ELSE methodName
              [] k = "middleware" ->
                    mergeMiddleware(Prop(route, "middleware"), groupMiddleware)
              [] OTHER -> route[k]]

\* the calls #configureRoute makes on the route handle, in order
RECURSIVE CallsOf(_, _)
CallsOf(fn, list) ==
    IF list = <<>> THEN <<>>
    ELSE <<[fn |-> fn, arg |-> <<Head(list)>>]>> \o CallsOf(fn, Tail(list))

\* #configureRoute(adonisRoute, route, domain)
configureRoute(route, domain) ==
    (IF Truthy(Prop(route, "name")) THEN <<[fn |-> "as", arg |-> route.name]>> ELSE <<>>)
    \o (IF Prop(route, "where") # UNDEF THEN CallsOf("where", route.where) ELSE <<>>)
    \o (IF Prop(route, "middleware") # UNDEF THEN CallsOf("use", route.middleware) ELSE <<>>)
    \o (IF Truthy(domain) THEN <<[fn |-> "domain", arg |-> domain]>> ELSE <<>>)

\* #createRoute: router.route(pattern, [method], handler)
createRoute(route, controller, methodName) ==
    [pattern |-> Prop(route, "pattern"), methods |-> <<Prop(route, "method")>>,
     handler |-> <<controller, methodName>>]

\* mutant: the domain is applied only to routes a group declaration resolved
registerSingleRouteGroupedDomain(controller, methodName, route, group, groupMiddleware, groupDomain) ==
    LET finalRoute == applyGroupConfiguration(route, methodName, group, groupMiddleware)
    IN [final |-> finalRoute,
        created |-> createRoute(finalRoute, controller, methodName),
        calls |-> configureRoute(finalRoute, IF HasGroup(group) THEN groupDomain ELSE UNDEF)]

\* #registerSingleRoute(controller, methodName, route): the resolved route, the
\* router.route call and the configuration calls made on the returned handle
registerSingleRoute(controller, methodName, route, group, groupMiddleware, groupDomain) ==
    LET finalRoute == applyGroupConfiguration(route, methodName, group, groupMiddleware)
    IN [final |-> finalRoute,
        created |-> createRoute(finalRoute, controller, methodName),
        calls |-> configureRoute(finalRoute, groupDomain)]

(***************************************************************************)
(* Metadata Store (src/metadata_store.ts) and reflect-metadata             *)
(***************************************************************************)
Controllers == {"A", "B"}

\* class B extends A: Object.getPrototypeOf(B) is A
Parent(c) == IF c = "B" THEN "A" ELSE "none"

\* the classes an instance of which runs the method initializers declared on d
SelfAndSubclasses(d) == {c \in Controllers : c = d \/ Parent(c) = d}

\* CONTROLLER_META.get(target)?.[key] is set
HasControllerMeta(store, target, key) ==
    target \in DOMAIN store /\ key \in DOMAIN store[target]

\* getControllerMeta(target, key)
getControllerMeta(store, target, key) ==
    IF HasControllerMeta(store, target, key) THEN store[target][key] ELSE UNDEF

\* getAllControllerMeta(target)
getAllControllerMeta(store, target) ==
    IF target \in DOMAIN store THEN store[target] ELSE <<>>

\* setControllerMeta(target, key, value)
setControllerMeta(store, target, key, value) ==
    [t \in (DOMAIN store) \cup {target} |->
        IF t = target
        THEN Spread(getAllControllerMeta(store, target), key :> value)
        ELSE store[t]]

\* pushControllerMeta(target, key, value)
pushControllerMeta(store, target, key, value) ==
    LET existing == IF HasControllerMeta(store, target, key)
                    THEN store[target][key] ELSE <<>>
    IN setControllerMeta(store, target, key, existing \o <<value>>)

\* Reflect.defineMetadata(key, value, target): an own entry of target
defineMetadata(store, key, value, target) ==
    setControllerMeta(store, target, key, value)

\* Reflect.getMetadata(key, target): the own entry, else the prototype chain's
RECURSIVE getMetadata(_, _, _)
getMetadata(store, key, target) ==
    IF target = "none" THEN UNDEF
    ELSE IF HasControllerMeta(store, target, key) THEN store[target][key]
    ELSE getMetadata(store, key, Parent(target))

\* #getControllerMetadata(key, controllerClass)
getControllerMetadata(store, key, controllerClass) ==
    getMetadata(store, key, controllerClass)

(***************************************************************************)
(* Decorators (src/decorators)                                             *)
(***************************************************************************)
\* getControllerMeta(ctor, 'routes') || {}
RoutesOf(store, ctor) ==
    IF HasControllerMeta(store, ctor, "routes") THEN store[ctor]["routes"] ELSE <<>>

\* routes[key], an empty object when not there
EntryOf(routes, key) == IF key \in DOMAIN routes THEN routes[key] ELSE <<>>

\* routes[key] = entry
PutEntry(routes, key, entry) == Spread(routes, key :> entry)

\* mutant: the newly supplied fields win over the stored ones
MergeRouteNewWins(newRoute, existing) == Spread(existing, newRoute)

\* { ...newRoute, ...routes[context.name] }
MergeRoute(newRoute, existing) == Spread(newRoute, existing)

\* the initializer of MethodDecorator(method)(pattern, name), run for an
\* instance whose constructor is ctor
MethodDecoratorWrite(store, ctor, key, method, pattern, name) ==
    LET routes == RoutesOf(store, ctor)
        newRoute == [method |-> method, pattern |-> pattern, name |-> name]
    IN setControllerMeta(store, ctor, "routes",
            PutEntry(routes, key, MergeRoute(newRoute, EntryOf(routes, key))))

\* mutant: the list is started afresh on every write
AppendToFieldFresh(entry, field, value) == Spread(entry, field :> <<value>>)

\* routes[key][field] is created when missing, then value is pushed
AppendToField(entry, field, value) ==
    Spread(entry, field :> ((IF field \in DOMAIN entry THEN entry[field] ELSE <<>>)
                            \o <<value>>))

\* Where(key, matcher)(target, propertyKey)
WhereWrite(store, ctor, key, constraint) ==
    LET routes == RoutesOf(store, ctor)
    IN setControllerMeta(store, ctor, "routes",
            PutEntry(routes, key, AppendToField(EntryOf(routes, key), "where", constraint)))

\* RouteMiddleware(middleware)(target, key)
RouteMiddlewareWrite(store, ctor, key, middleware) ==
    LET routes == RoutesOf(store, ctor)
    IN setControllerMeta(store, ctor, "routes",
            PutEntry(routes, key,
                     AppendToField(EntryOf(routes, key), "middleware", middleware)))

(***************************************************************************)
(* Inputs of the Group Resolver                                            *)
(***************************************************************************)
PathChars == {"/", "a"}
Paths == SeqsUpTo(PathChars, MaxPathLen)
NameChars == {"g", "."}
Names == SeqsUpTo(NameChars, MaxNameLen)
GroupNames == {<<"g">>, <<"g", "g">>}
MethodNames == {<<"i">>}
Mws == {"m1", "m2"}
MwLists == SeqsUpTo(Mws, MaxMw)
WhereLists == {<<"w1", "w2">>}
Domains == {<<"d">>}
SamplePatterns == {<<"/">>, <<"/", "a">>}
SamplePrefixes == {<<"/", "a">>}

\* route declarations as the decorators leave them: the verb decorator writes
\* method, pattern and name (possibly undefined); where and middleware exist
\* only once a Where / middleware decorator has run
RouteDecls(patterns, names, wheres, mws) ==
    {[k \in {"method", "pattern", "name"} \cup
            (IF w = UNDEF THEN {} ELSE {"where"}) \cup
            (IF m = UNDEF THEN {} ELSE {"middleware"}) |->
        CASE k = "method" -> <<"GET">>
          [] k = "pattern" -> p
          [] k = "name" -> n
          [] k = "where" -> w
          [] OTHER -> m] :
        p \in patterns, n \in names, w \in wheres, m \in mws}

\* @Group(options): options holds any subset of name and prefix
GroupObjects(names, prefixes) ==
    {[k \in D |-> IF k = "name" THEN n ELSE p] :
        D \in SUBSET {"name", "prefix"}, n \in names, p \in prefixes}

GroupMiddlewares ==
    {NoGroupMiddleware}
    \cup {[kind |-> "single", items |-> <<m>>] : m \in Mws}
    \cup {[kind |-> "array", items |-> l] : l \in MwLists}

(***************************************************************************)
(* State                                                                   *)
(***************************************************************************)
VARIABLES
    rin,          \* the declarations registerSingleRoute reads
    rpc,          \* "declared", "registered", "again"
    finalRoute,   \* #applyGroupConfiguration's result
    routerRoute,  \* the router.route call
    handleCalls,  \* calls made on the route handle
    again,        \* the resolved route resolved once more
    classes,      \* the controller classes that exist
    meta,         \* CONTROLLER_META of metadata_store.ts
    reflectMeta,  \* metadata defined through Reflect.defineMetadata
    budget,       \* decorator writes still to come
    annotLog,     \* the annotations applied so far, in order
    lastFor,      \* the class the last annotation was written on
    beforeMeta,   \* meta before the last write
    beforeReflect, \* reflectMeta before the last write
    routerResources, \* the resources the router holds, with the calls made on each handle
    logs,         \* logger.error calls
    tree,         \* the controllers directory, entries in depth-first listing order
    config,       \* controllersGlob of the girouette config, "none" when not set
    pc,           \* where start() is: idle, readdir, loop, import, done, crashed
    stack,        \* the #scanControllersDirectory calls in progress
    importing,    \* the file whose import() is awaited, 0 when none
    routerRoutes, \* the routes the router holds, with the calls made on each handle
    failing,      \* the files whose load or registration threw
    lastIndex,    \* lastIndex of the controllersGlob regular expression
    thrown        \* the error that left start(), "none" when none did

groupVars == <<rin, rpc, finalRoute, routerRoute, handleCalls, again>>
storeVars == <<classes, meta, reflectMeta, budget, annotLog, lastFor, beforeMeta, beforeReflect>>

routerVars == <<routerResources, logs>>

scanVars == <<tree, config, pc, stack, importing, routerRoutes, failing, lastIndex, thrown>>

vars == <<groupVars, storeVars, routerVars, scanVars>>

\* start() has not been called
ScanIdle ==
    /\ tree = <<>>
    /\ config = "none"
    /\ pc = "off"
    /\ stack = <<>>
    /\ importing = 0
    /\ routerRoutes = <<>>
    /\ failing = {}
    /\ lastIndex = 0
    /\ thrown = "none"

\* no decorator has run
StoreIdle ==
    /\ classes = {}
    /\ meta = <<>>
    /\ reflectMeta = <<>>
    /\ budget = 0
    /\ annotLog = <<>>
    /\ lastFor = "none"
    /\ beforeMeta = <<>>
    /\ beforeReflect = <<>>
    /\ routerResources = <<>>
    /\ logs = <<>>
    /\ ScanIdle

InitGroupWith(routes, groups, gmws, domains) ==
    /\ rin \in [route : routes, methodName : MethodNames, group : groups,
                groupMiddleware : gmws, groupDomain : domains]
    /\ rpc = "declared"
    /\ finalRoute = <<>>
    /\ routerRoute = <<>>
    /\ handleCalls = <<>>
    /\ again = <<>>
    /\ StoreIdle

\* one ordinary route of a controller is registered
RegisterSingleRoute ==
    /\ rpc = "declared"
    /\ LET r == registerSingleRoute("C", rin.methodName, rin.route, rin.group,
                                    rin.groupMiddleware, rin.groupDomain)
       IN /\ finalRoute' = r.final
          /\ routerRoute' = r.created
          /\ handleCalls' = r.calls
    /\ rpc' = "registered"
    /\ UNCHANGED <<rin, again, storeVars, routerVars, scanVars>>

\* the resolved route is fed through the resolver a second time
ResolveAgain ==
    /\ rpc = "registered"
    /\ again' = applyGroupConfiguration(finalRoute, rin.methodName, rin.group,
                                        rin.groupMiddleware)
    /\ rpc' = "again"
    /\ UNCHANGED <<rin, finalRoute, routerRoute, handleCalls, storeVars, routerVars, scanVars>>

NextGroup == RegisterSingleRoute \/ ResolveAgain

\* every declaration of the resolver's inputs
InitGroup ==
    InitGroupWith(RouteDecls(SamplePatterns, {UNDEF} \cup Names, {UNDEF} \cup WhereLists,
                             {UNDEF} \cup MwLists),
                  {NoGroup} \cup GroupObjects(GroupNames, SamplePrefixes),
                  GroupMiddlewares, {UNDEF} \cup Domains)

SpecGroup == InitGroup /\ [][NextGroup]_vars

\* every prefix against every pattern
InitPattern ==
    InitGroupWith(RouteDecls(Paths, {UNDEF}, {UNDEF}, {UNDEF}),
                  GroupObjects({<<"g">>}, Paths),
                  {NoGroupMiddleware}, {UNDEF})

SpecPattern == InitPattern /\ [][NextGroup]_vars

(***************************************************************************)
(* Declaration phase: decorators write the stores                          *)
(***************************************************************************)
PropertyKeys == {"index"}
Verbs == {<<"GET">>, <<"POST">>}
DeclPatterns == {<<"/", "a">>, <<"/", "b">>}
DeclNames == {<<"n">>}
Constraints == {"w1", "w2"}
ResourcePatterns == {<<"p">>}
ResourceNames == {<<"r">>}
REFLECT_RESOURCE_NAME_KEY == "REFLECT_RESOURCE_NAME_KEY"
REFLECT_RESOURCE_PARAMS_KEY == "REFLECT_RESOURCE_PARAMS_KEY"

GroupIdle ==
    /\ rin = <<>>
    /\ rpc = "off"
    /\ finalRoute = <<>>
    /\ routerRoute = <<>>
    /\ handleCalls = <<>>
    /\ again = <<>>

InitStoreWith(cls, n) ==
    /\ classes = cls
    /\ meta = <<>>
    /\ reflectMeta = <<>>
    /\ budget = n
    /\ annotLog = <<>>
    /\ lastFor = "none"
    /\ beforeMeta = <<>>
    /\ beforeReflect = <<>>
    /\ routerResources = <<>>
    /\ logs = <<>>
    /\ ScanIdle
    /\ GroupIdle

\* bookkeeping of a write whose target is class d
Annotated(d, ctor, key, kind, arg) ==
    /\ budget > 0
    /\ budget' = budget - 1
    /\ annotLog' = Append(annotLog, [for |-> d, ctor |-> ctor, key |-> key,
                                     kind |-> kind, arg |-> arg])
    /\ lastFor' = d
    /\ beforeMeta' = meta
    /\ beforeReflect' = reflectMeta
    /\ UNCHANGED <<classes, groupVars, routerVars, scanVars>>

\* @Get / @Post ... on a method of class d; the initializer runs when an
\* instance of d or of a subclass is constructed, with this.constructor = ctor
MethodDecorator ==
    \E d \in classes, key \in PropertyKeys, method \in Verbs,
       pattern \in DeclPatterns, name \in {UNDEF} \cup DeclNames :
      \E ctor \in SelfAndSubclasses(d) \cap classes :
        /\ meta' = MethodDecoratorWrite(meta, ctor, key, method, pattern, name)
        /\ Annotated(ctor, ctor, key, "verb",
                     [method |-> method, pattern |-> pattern, name |-> name])
        /\ UNCHANGED reflectMeta

\* @Where(key, matcher) on a method of class d: target.constructor is d
Where ==
    \E d \in classes, key \in PropertyKeys, w \in Constraints :
        /\ meta' = WhereWrite(meta, d, key, w)
        /\ Annotated(d, d, key, "where", [value |-> w])
        /\ UNCHANGED reflectMeta

\* @RouteMiddleware(middleware) on a method of class d
RouteMiddleware ==
    \E d \in classes, key \in PropertyKeys, m \in Mws :
        /\ meta' = RouteMiddlewareWrite(meta, d, key, m)
        /\ Annotated(d, d, key, "middleware", [value |-> m])
        /\ UNCHANGED reflectMeta

\* @Group(options) on class d
Group ==
    \E d \in classes, options \in GroupObjects({<<"g">>}, SamplePrefixes) :
        /\ meta' = setControllerMeta(meta, d, "group", options)
        /\ Annotated(d, d, "group", "class", options)
        /\ UNCHANGED reflectMeta

\* @GroupDomain(domain) on class d
GroupDomain ==
    \E d \in classes, domain \in Domains :
        /\ meta' = setControllerMeta(meta, d, "groupDomain", domain)
        /\ Annotated(d, d, "groupDomain", "class", [value |-> domain])
        /\ UNCHANGED reflectMeta

\* what @Resource(pattern, name?) of decorators/resource.ts writes for target
ResourceWrite(store, target, pattern, name) ==
    LET m1 == setControllerMeta(store, target, "resource", pattern)
    IN IF Truthy(name) THEN setControllerMeta(m1, target, "resourceName", name) ELSE m1

\* @Resource(pattern, name?) of decorators/resource.ts on class d
Resource ==
    \E d \in classes, pattern \in ResourcePatterns, name \in {UNDEF} \cup ResourceNames :
        /\ meta' = ResourceWrite(meta, d, pattern, name)
        /\ Annotated(d, d, "resource", "class", [pattern |-> pattern, name |-> name])
        /\ UNCHANGED reflectMeta

\* @ResourceMiddleware(actions, middleware) on class d
ResourceMiddleware ==
    \E d \in classes, actions \in {<<"*">>, <<"index">>}, m \in Mws :
        /\ meta' = LET resourceMiddleware ==
                          IF HasControllerMeta(meta, d, "resourceMiddleware")
                          THEN meta[d]["resourceMiddleware"] ELSE <<>>
                   IN setControllerMeta(meta, d, "resourceMiddleware",
                          Append(resourceMiddleware, [actions |-> actions, middleware |-> m]))
        /\ Annotated(d, d, "resourceMiddleware", "class", [actions |-> actions, middleware |-> m])
        /\ UNCHANGED reflectMeta

\* a direct append to a list entry of the store
PushControllerMeta ==
    \E d \in classes, m \in Mws :
        /\ meta' = pushControllerMeta(meta, d, "resourceMiddleware",
                                      [actions |-> <<"*">>, middleware |-> m])
        /\ Annotated(d, d, "resourceMiddleware", "class", [actions |-> <<"*">>, middleware |-> m])
        /\ UNCHANGED reflectMeta

\* @Resource(options) of the reflect-metadata flavour on class d: options is a
\* string or { name, params? }
ReflectResource ==
    \E d \in classes, name \in ResourceNames, params \in {UNDEF, <<"param">>} :
        /\ reflectMeta' =
              LET m1 == defineMetadata(reflectMeta, REFLECT_RESOURCE_NAME_KEY, name, d)
              IN IF params # UNDEF
                 THEN defineMetadata(m1, REFLECT_RESOURCE_PARAMS_KEY, params, d)
                 ELSE m1
        /\ Annotated(d, d, REFLECT_RESOURCE_NAME_KEY, "reflect", [name |-> name, params |-> params])
        /\ UNCHANGED meta

\* the route annotations of one controller
NextDecl == MethodDecorator \/ Where \/ RouteMiddleware

InitDecl == InitStoreWith({"A"}, MaxAnnotations)

SpecDecl == InitDecl /\ [][NextDecl]_vars

\* every decorator, on a class and its subclass
NextStore ==
    \/ MethodDecorator
    \/ Where
    \/ RouteMiddleware
    \/ Group
    \/ GroupDomain
    \/ Resource
    \/ ResourceMiddleware
    \/ PushControllerMeta
    \/ ReflectResource

InitStore == InitStoreWith(Controllers, MaxWrites)

SpecStore == InitStore /\ [][NextStore]_vars

(***************************************************************************)
(* Resource Expander (providers/girouette_provider.ts)                     *)
(***************************************************************************)
REFLECT_RESOURCE_ONLY_KEY == "REFLECT_RESOURCE_ONLY_KEY"
REFLECT_RESOURCE_EXCEPT_KEY == "REFLECT_RESOURCE_EXCEPT_KEY"
REFLECT_RESOURCE_API_ONLY_KEY == "REFLECT_RESOURCE_API_ONLY_KEY"
REFLECT_RESOURCE_MIDDLEWARE_KEY == "REFLECT_RESOURCE_MIDDLEWARE_KEY"

\* Reflect.getMetadata(key, target) is not undefined
RECURSIVE hasMetadata(_, _, _)
hasMetadata(store, key, target) ==
    IF target = "none" THEN FALSE
    ELSE IF HasControllerMeta(store, target, key) THEN TRUE
    ELSE hasMetadata(store, key, Parent(target))

\* mutant: only and except are passed to each other's call
defineResourceActionsSwapped(store, controller) ==
    (IF hasMetadata(store, REFLECT_RESOURCE_API_ONLY_KEY, controller)
        /\ getControllerMetadata(store, REFLECT_RESOURCE_API_ONLY_KEY, controller) = TRUE
     THEN <<[fn |-> "apiOnly", arg |-> {}]>> ELSE <<>>)
    \o (IF hasMetadata(store, REFLECT_RESOURCE_ONLY_KEY, controller)
        THEN <<[fn |-> "except",
                arg |-> getControllerMetadata(store, REFLECT_RESOURCE_ONLY_KEY, controller)]>>
        ELSE <<>>)
    \o (IF hasMetadata(store, REFLECT_RESOURCE_EXCEPT_KEY, controller)
        THEN <<[fn |-> "only",
                arg |-> getControllerMetadata(store, REFLECT_RESOURCE_EXCEPT_KEY, controller)]>>
        ELSE <<>>)

\* #defineResourceActions(resource, controller): the filter calls made on the
\* resource handle, in order; an only / except array is truthy even when empty
defineResourceActions(store, controller) ==
    (IF hasMetadata(store, REFLECT_RESOURCE_API_ONLY_KEY, controller)
        /\ getControllerMetadata(store, REFLECT_RESOURCE_API_ONLY_KEY, controller) = TRUE
     THEN <<[fn |-> "apiOnly", arg |-> {}]>> ELSE <<>>)
    \o (IF hasMetadata(store, REFLECT_RESOURCE_ONLY_KEY, controller)
        THEN <<[fn |-> "only",
                arg |-> getControllerMetadata(store, REFLECT_RESOURCE_ONLY_KEY, controller)]>>
        ELSE <<>>)
    \o (IF hasMetadata(store, REFLECT_RESOURCE_EXCEPT_KEY, controller)
        THEN <<[fn |-> "except",
                arg |-> getControllerMetadata(store, REFLECT_RESOURCE_EXCEPT_KEY, controller)]>>
        ELSE <<>>)

\* the resource.middleware(actions, middleware) calls of #configureResource
RECURSIVE MiddlewareCalls(_)
MiddlewareCalls(list) ==
    IF list = <<>> THEN <<>>
    ELSE <<[fn |-> "middleware", arg |-> Head(list)]>> \o MiddlewareCalls(Tail(list))

\* #configureResource(resource, controller): the calls made on the handle
configureResource(store, controller) ==
    (IF hasMetadata(store, REFLECT_RESOURCE_PARAMS_KEY, controller)
     THEN <<[fn |-> "params",
             arg |-> getControllerMetadata(store, REFLECT_RESOURCE_PARAMS_KEY, controller)]>>
     ELSE <<>>)
    \o defineResourceActions(store, controller)
    \o (IF hasMetadata(store, REFLECT_RESOURCE_MIDDLEWARE_KEY, controller)
        THEN MiddlewareCalls(
                getControllerMetadata(store, REFLECT_RESOURCE_MIDDLEWARE_KEY, controller))
        ELSE <<>>)

\* the seven actions router.resource generates
CanonicalActions == {"index", "create", "store", "show", "edit", "update", "destroy"}
ApiActions == {"index", "store", "show", "update", "destroy"}

\* the router's resource handle: the actions the filter calls have removed
RECURSIVE DeletedActions(_)
DeletedActions(calls) ==
    IF calls = <<>> THEN {}
    ELSE LET c == Head(calls)
             now == CASE c.fn = "apiOnly" -> CanonicalActions \ ApiActions
                      [] c.fn = "only" -> CanonicalActions \ c.arg
                      [] c.fn = "except" -> CanonicalActions \cap c.arg
                      [] OTHER -> {}
         IN now \cup DeletedActions(Tail(calls))

\* the actions of a resource that reach the route table
RegisteredActions(resource) == CanonicalActions \ DeletedActions(resource.calls)

\* the route names of a resource: <resource name>.<action>
RegisteredNames(resource) == {resource.name \o <<".", a>> : a \in RegisteredActions(resource)}

\* #registerResourceRoutes(controller): the router's resources and the log
\* afterwards. outcome "throws": router.resource throws; "configThrows": the
\* resource is created and the first call made on its handle throws
registerResourceRoutes(store, controller, file, outcome, resources, log) ==
    LET resourceName == getControllerMetadata(store, REFLECT_RESOURCE_NAME_KEY, controller)
        calls == configureResource(store, controller)
        caught(error) == [msg |-> "Error registering resource routes", file |-> file,
                          error |-> error]
    IN IF ~Truthy(resourceName) THEN [resources |-> resources, log |-> log]
       ELSE IF outcome = "throws"
            THEN [resources |-> resources, log |-> Append(log, caught("resource"))]
            ELSE IF outcome = "configThrows" /\ calls # <<>>
            THEN [resources |->
                     Append(resources, [name |-> resourceName, controller |-> file,
                                        calls |-> <<>>, configured |-> FALSE]),
                  log |-> Append(log, caught("handle"))]
            ELSE [resources |->
                     Append(resources, [name |-> resourceName, controller |-> file,
                                        calls |-> calls, configured |-> TRUE]),
                  log |-> log]

(***************************************************************************)
(* One resource controller is registered                                   *)
(***************************************************************************)
ActionSets == {s \in SUBSET CanonicalActions : Cardinality(s) <= MaxFilter}
ResourceMwList == <<[actions |-> <<"*">>, middleware |-> "m1"]>>

\* the resource metadata a controller class can carry
ResourceBags ==
    {[k \in (IF Truthy(name) THEN {REFLECT_RESOURCE_NAME_KEY} ELSE {})
            \cup (IF withParams THEN {REFLECT_RESOURCE_PARAMS_KEY} ELSE {})
            \cup (IF apiOnly THEN {REFLECT_RESOURCE_API_ONLY_KEY} ELSE {})
            \cup (IF only # {"none"} THEN {REFLECT_RESOURCE_ONLY_KEY} ELSE {})
            \cup (IF except # {"none"} THEN {REFLECT_RESOURCE_EXCEPT_KEY} ELSE {})
            \cup (IF withMw THEN {REFLECT_RESOURCE_MIDDLEWARE_KEY} ELSE {}) |->
        CASE k = REFLECT_RESOURCE_NAME_KEY -> name
          [] k = REFLECT_RESOURCE_PARAMS_KEY -> <<"param">>
          [] k = REFLECT_RESOURCE_API_ONLY_KEY -> TRUE
          [] k = REFLECT_RESOURCE_ONLY_KEY -> only
          [] k = REFLECT_RESOURCE_EXCEPT_KEY -> except
          [] OTHER -> ResourceMwList] :
        name \in {UNDEF} \cup ResourceNames, withParams \in BOOLEAN, apiOnly \in BOOLEAN,
        only \in {{"none"}} \cup ActionSets, except \in {{"none"}} \cup ActionSets,
        withMw \in BOOLEAN}

\* the name a resource declaration can give its routes
ResourceAliases == {<<"n">>}

\* controller A with its resource declaration: the base pattern is the string
\* the provider reads, a name for the routes may come with it
InitResource ==
    /\ classes = {"A"}
    /\ reflectMeta \in {"A" :> bag : bag \in ResourceBags}
    /\ meta \in IF hasMetadata(reflectMeta, REFLECT_RESOURCE_NAME_KEY, "A")
                THEN {ResourceWrite(<<>>, "A", reflectMeta["A"][REFLECT_RESOURCE_NAME_KEY], n) :
                        n \in {UNDEF} \cup ResourceAliases}
                ELSE {<<>>}
    /\ budget = 1
    /\ annotLog = <<>>
    /\ lastFor = "none"
    /\ beforeMeta = <<>>
    /\ beforeReflect = <<>>
    /\ routerResources = <<>>
    /\ logs = <<>>
    /\ ScanIdle
    /\ GroupIdle

\* what the router can answer while the resource of a controller is registered
ResourceOutcomes(store, controller) ==
    {"ok", "throws"}
    \cup (IF configureResource(store, controller) # <<>> THEN {"configThrows"} ELSE {})

\* the resource routes of controller A are registered
RegisterResourceRoutes ==
    /\ budget > 0
    /\ \E outcome \in ResourceOutcomes(reflectMeta, "A") :
          LET r == registerResourceRoutes(reflectMeta, "A", 1, outcome, routerResources, logs)
          IN /\ routerResources' = r.resources
             /\ logs' = r.log
    /\ budget' = budget - 1
    /\ UNCHANGED <<classes, meta, reflectMeta, annotLog, lastFor, beforeMeta, beforeReflect,
                   groupVars, scanVars>>

NextResource == RegisterResourceRoutes

SpecResource == InitResource /\ [][NextResource]_vars

(***************************************************************************)
(* Controller Scanner and Registration Engine                              *)
(***************************************************************************)
REFLECT_ROUTES_KEY == "REFLECT_ROUTES_KEY"
REFLECT_GROUP_KEY == "REFLECT_GROUP_KEY"
REFLECT_GROUP_MIDDLEWARE_KEY == "REFLECT_GROUP_MIDDLEWARE_KEY"
REFLECT_GROUP_DOMAIN_KEY == "REFLECT_GROUP_DOMAIN_KEY"

\* file names, cut where the classification looks: <<stem, suffix, extension>>
FileNameOf(kind) ==
    CASE kind = "routes" -> <<"posts", "_controller", ".ts">>
      [] kind = "both" -> <<"users", "_controller", ".js">>
      [] kind = "domain" -> <<"posts", "_controller_domain", ".ts">>
      [] kind = "ctldir" -> <<"old", "_controller", ".ts">>
      [] kind = "dir" -> <<"admin">>
      [] OTHER -> <<"helper", ".ts">>

\* the entry is a directory: Dirent.isDirectory()
isDirectory(kind) == kind \in {"dir", "ctldir"}

\* the class a controller file exports as default
ClassOf(kind) == IF kind \in {"routes", "domain"} THEN "R" ELSE "RB"

\* the metadata the controller classes carry when their files are loaded; the
\* routes record is listed in property order, as `for ... in` walks it
ScanMeta ==
    ("R" :> (REFLECT_ROUTES_KEY :>
                <<[key |-> <<"index">>,
                   route |-> [method |-> <<"GET">>, pattern |-> <<"/", "a">>, name |-> UNDEF]],
                  [key |-> <<"show">>,
                   route |-> [method |-> <<"GET">>, pattern |-> <<"/", "b">>,
                              name |-> <<"n">>, middleware |-> <<"m1">>]]>>))
    @@ ("RB" :> ((REFLECT_ROUTES_KEY :>
                    <<[key |-> <<"index">>,
                       route |-> [method |-> <<"POST">>, pattern |-> <<"a">>, name |-> UNDEF]]>>)
                 @@ (REFLECT_GROUP_KEY :> [name |-> <<"g">>, prefix |-> <<"/", "g">>])
                 @@ (REFLECT_RESOURCE_NAME_KEY :> <<"r">>)
                 @@ (REFLECT_RESOURCE_ONLY_KEY :> {"index", "show"})))

\* the override pattern of the custom_regex test, /_controller_domain\.(ts|js)$/,
\* matches fileName
MatchesGlob(fileName) ==
    EndsWith(fileName, <<"_controller_domain", ".ts">>)
        \/ EndsWith(fileName, <<"_controller_domain", ".js">>)

\* controllersGlob.test(fileName): the answer and the pattern's lastIndex
\* afterwards. A pattern without flags ("regex") searches the whole name; one
\* with the g flag ("regex_g") searches from lastIndex on, sets lastIndex to
\* the end of the match, and to 0 when it finds none
RegExpTest(cfg, lastIdx, fileName) ==
    IF cfg = "regex" THEN [candidate |-> MatchesGlob(fileName), lastIndex |-> lastIdx]
    ELSE IF MatchesGlob(fileName) /\ lastIdx <= Len(fileName) - 2
         THEN [candidate |-> TRUE, lastIndex |-> Len(fileName)]
         ELSE [candidate |-> FALSE, lastIndex |-> 0]

\* #isControllerFile(fileName): whether the file is a controller candidate, and
\* the lastIndex of the override pattern afterwards
isControllerFile(cfg, lastIdx, fileName) ==
    IF cfg = "none"
    THEN [candidate |-> EndsWith(fileName, <<"_controller", ".ts">>)
                            \/ EndsWith(fileName, <<"_controller", ".js">>),
          lastIndex |-> lastIdx]
    ELSE RegExpTest(cfg, lastIdx, fileName)

\* the directory an entry is listed in, 0 for the controllers root
ParentPos(t, i) ==
    IF t[i].depth = 0 THEN 0
    ELSE CHOOSE j \in 1..(i - 1) :
            /\ t[j].depth = t[i].depth - 1
            /\ \A k \in (j + 1)..(i - 1) : t[k].depth >= t[i].depth

\* mutant: the entries of a directory are walked last to first
ChildrenReversed(t, d) ==
    LET Test(i) == ParentPos(t, i) = d
    IN SelectSeq([i \in 1..Len(t) |-> Len(t) + 1 - i], Test)

\* readdir(directory, { withFileTypes: true }): the entries of directory d
Children(t, d) ==
    LET Test(i) == ParentPos(t, i) = d
    IN SelectSeq([i \in 1..Len(t) |-> i], Test)

\* the routes of a controller, none when it has no routes metadata
RoutesToRegister(store, controller) ==
    IF hasMetadata(store, REFLECT_ROUTES_KEY, controller)
    THEN getControllerMetadata(store, REFLECT_ROUTES_KEY, controller)
    ELSE <<>>

\* the group declaration and the group middleware #registerSingleRoute reads
GroupOf(store, controller) ==
    IF hasMetadata(store, REFLECT_GROUP_KEY, controller)
    THEN getControllerMetadata(store, REFLECT_GROUP_KEY, controller)
    ELSE NoGroup

GroupMiddlewareOf(store, controller) ==
    IF hasMetadata(store, REFLECT_GROUP_MIDDLEWARE_KEY, controller)
    THEN getControllerMetadata(store, REFLECT_GROUP_MIDDLEWARE_KEY, controller)
    ELSE NoGroupMiddleware

\* mutant: the resolved fields are assigned to the stored route object
storedRouteAfterAssigned(route, methodName, group, groupMiddleware) ==
    applyGroupConfiguration(route, methodName, group, groupMiddleware)

\* the route object of the store after #applyGroupConfiguration was given it:
\* the result is a new object built by spreading, #mergeMiddleware builds new
\* arrays, and #configureRoute only reads; the argument is left as it was
storedRouteAfter(route, methodName, group, groupMiddleware) == route

\* the store once the i-th route object of the controller is replaced
WithStoredRoute(store, controller, i, route) ==
    IF HasControllerMeta(store, controller, REFLECT_ROUTES_KEY)
    THEN [store EXCEPT ![controller][REFLECT_ROUTES_KEY][i].route = route]
    ELSE store

\* #registerControllerRoutes(controller): router.route throws on call number
\* throwAt (0: on none); the routes submitted, whether the error escaped and
\* the store afterwards
RECURSIVE registerControllerRoutes(_, _, _, _, _, _)
registerControllerRoutes(store, controller, file, throwAt, i, routes) ==
    LET declared == RoutesToRegister(store, controller)
    IN IF i > Len(declared) THEN [routes |-> routes, threw |-> FALSE, store |-> store]
       ELSE IF i = throwAt THEN [routes |-> routes, threw |-> TRUE, store |-> store]
       ELSE LET group == GroupOf(store, controller)
                groupMiddleware == GroupMiddlewareOf(store, controller)
                r == registerSingleRoute(
                        file, declared[i].key, declared[i].route, group, groupMiddleware,
                        getControllerMetadata(store, REFLECT_GROUP_DOMAIN_KEY, controller))
                after == storedRouteAfter(declared[i].route, declared[i].key, group,
                                          groupMiddleware)
            IN registerControllerRoutes(
                    WithStoredRoute(store, controller, i, after), controller, file, throwAt,
                    i + 1,
                    Append(routes, [file |-> file, created |-> r.created, calls |-> r.calls]))

\* mutant: an error of the import or of the registration is thrown on
processControllerFileRethrows(store, controller, file, imported, throwAt, outcome, routes, resources, log) ==
    IF ~imported
    THEN [routes |-> routes, resources |-> resources, log |-> log, thrown |-> "import",
          store |-> store]
    ELSE LET rr == registerControllerRoutes(store, controller, file, throwAt, 1, routes)
         IN IF rr.threw
            THEN [routes |-> rr.routes, resources |-> resources, log |-> log,
                  thrown |-> "register", store |-> rr.store]
            ELSE LET rs == registerResourceRoutes(rr.store, controller, file, outcome,
                                                  resources, log)
                 IN [routes |-> rr.routes, resources |-> rs.resources, log |-> rs.log,
                     thrown |-> "none", store |-> rr.store]

\* #processControllerFile(filePath), once import() has settled: the router's
\* routes and resources, the log, the error leaving the method and the store
processControllerFile(store, controller, file, imported, throwAt, outcome, routes, resources, log) ==
    LET caught(error) == [msg |-> "Error processing controller file", file |-> file,
                          error |-> error]
    IN IF ~imported
       THEN [routes |-> routes, resources |-> resources,
             log |-> Append(log, caught("import")), thrown |-> "none", store |-> store]
       ELSE LET rr == registerControllerRoutes(store, controller, file, throwAt, 1, routes)
            IN IF rr.threw
               THEN [routes |-> rr.routes, resources |-> resources,
                     log |-> Append(log, caught("route")), thrown |-> "none",
                     store |-> rr.store]
               ELSE LET rs == registerResourceRoutes(rr.store, controller, file, outcome,
                                                     resources, log)
                    IN [routes |-> rr.routes, resources |-> rs.resources, log |-> rs.log,
                        thrown |-> "none", store |-> rr.store]

(***************************************************************************)
(* The scan as a state machine                                             *)
(***************************************************************************)
EntryKinds == {"dir", "other", "routes", "both"}

\* depth-first listings of directory trees: an entry lies one level below the
\* directory just before it, or at the level of an entry listed earlier
ValidTree(t) ==
    \A i \in 1..Len(t) :
        IF i = 1 THEN t[i].depth = 0
        ELSE t[i].depth <= t[i - 1].depth + (IF isDirectory(t[i - 1].kind) THEN 1 ELSE 0)

\* the listings of n entries, each one a listing of n - 1 entries and one more
RECURSIVE TreesOfLen(_, _)
TreesOfLen(kinds, n) ==
    IF n = 0 THEN {<<>>}
    ELSE {x \in {Append(t, e) : t \in TreesOfLen(kinds, n - 1),
                                 e \in [depth : 0..(n - 1), kind : kinds]} :
            ValidTree(x)}

\* the files of a listing that export a controller class
ControllerFiles(t) == {i \in 1..Len(t) : t[i].kind \in {"routes", "both", "domain"}}

FewControllers(trees) == {t \in trees : Cardinality(ControllerFiles(t)) <= MaxControllers}

Trees == FewControllers(UNION {TreesOfLen(EntryKinds, n) : n \in 0..MaxEntries})

InitScanWith(trees, configs) ==
    /\ tree \in trees
    /\ config \in configs
    /\ lastIndex = 0
    /\ pc = "idle"
    /\ stack = <<>>
    /\ importing = 0
    /\ routerRoutes = <<>>
    /\ failing = {}
    /\ thrown = "none"
    /\ classes = {"R", "RB"}
    /\ meta = <<>>
    /\ reflectMeta = ScanMeta
    /\ budget = 0
    /\ annotLog = <<>>
    /\ lastFor = "none"
    /\ beforeMeta = <<>>
    /\ beforeReflect = <<>>
    /\ routerResources = <<>>
    /\ logs = <<>>
    /\ GroupIdle

Top == stack[Len(stack)]
Listing == Children(tree, Top.dir)
Advance(stk) == [stk EXCEPT ![Len(stk)].idx = @ + 1]
ScanFrame == <<tree, config, classes, meta, budget, annotLog, lastFor,
               beforeMeta, beforeReflect, groupVars>>

\* start(): router, logger and config are resolved, the root is scanned
Start ==
    /\ pc = "idle"
    /\ pc' = "readdir"
    /\ stack' = <<[dir |-> 0, idx |-> 0]>>
    /\ UNCHANGED <<importing, routerRoutes, failing, thrown, routerVars, reflectMeta, lastIndex, ScanFrame>>

\* the awaited readdir of the innermost directory resolves
ReaddirResolves ==
    /\ pc = "readdir"
    /\ pc' = "loop"
    /\ stack' = [stack EXCEPT ![Len(stack)].idx = 1]
    /\ UNCHANGED <<importing, routerRoutes, failing, thrown, routerVars, reflectMeta, lastIndex, ScanFrame>>

\* mutant: a rejected readdir is logged and the directory is skipped
ReaddirRejectsCaught ==
    /\ pc = "readdir"
    /\ logs' = Append(logs, [msg |-> "Error reading directory", file |-> Top.dir,
                             error |-> "readdir"])
    /\ IF Len(stack) = 1
       THEN pc' = "done" /\ stack' = <<>>
       ELSE pc' = "loop" /\ stack' = Advance(SubSeq(stack, 1, Len(stack) - 1))
    /\ UNCHANGED <<importing, routerRoutes, failing, thrown, routerResources, reflectMeta, lastIndex, ScanFrame>>

\* the awaited readdir rejects: no caller catches, the error leaves start()
ReaddirRejects ==
    /\ pc = "readdir"
    /\ pc' = "crashed"
    /\ stack' = <<>>
    /\ thrown' = "readdir"
    /\ UNCHANGED <<importing, routerRoutes, failing, routerVars, reflectMeta, lastIndex, ScanFrame>>

\* the entry is a directory: it is scanned before the next entry
EnterDirectory ==
    /\ pc = "loop"
    /\ Top.idx <= Len(Listing)
    /\ isDirectory(tree[Listing[Top.idx]].kind)
    /\ stack' = Append(stack, [dir |-> Listing[Top.idx], idx |-> 0])
    /\ pc' = "readdir"
    /\ UNCHANGED <<importing, routerRoutes, failing, thrown, routerVars, reflectMeta, lastIndex, ScanFrame>>

\* the entry is a file that is no controller file
SkipFile ==
    /\ pc = "loop"
    /\ Top.idx <= Len(Listing)
    /\ ~isDirectory(tree[Listing[Top.idx]].kind)
    /\ \E t \in {isControllerFile(config, lastIndex, FileNameOf(tree[Listing[Top.idx]].kind))} :
        /\ ~t.candidate
        /\ lastIndex' = t.lastIndex
    /\ stack' = Advance(stack)
    /\ UNCHANGED <<pc, importing, routerRoutes, failing, thrown, routerVars, reflectMeta,
                   ScanFrame>>

\* the entry is a controller file: #processControllerFile awaits its import
BeginImport ==
    /\ pc = "loop"
    /\ Top.idx <= Len(Listing)
    /\ ~isDirectory(tree[Listing[Top.idx]].kind)
    /\ \E t \in {isControllerFile(config, lastIndex, FileNameOf(tree[Listing[Top.idx]].kind))} :
        /\ t.candidate
        /\ lastIndex' = t.lastIndex
    /\ importing' = Listing[Top.idx]
    /\ pc' = "import"
    /\ UNCHANGED <<stack, routerRoutes, failing, thrown, routerVars, reflectMeta, ScanFrame>>

\* #processControllerFile goes on after the import settled
Processed(imported, throwAt, outcome) ==
    \E r \in {processControllerFile(reflectMeta, ClassOf(tree[importing].kind), importing,
                                     imported, throwAt, outcome, routerRoutes,
                                     routerResources, logs)} :
       /\ routerRoutes' = r.routes
       /\ routerResources' = r.resources
       /\ logs' = r.log
       /\ thrown' = r.thrown
       /\ reflectMeta' = r.store
       /\ failing' = IF imported /\ throwAt = 0 /\ outcome = "ok" THEN failing
                     ELSE failing \cup {importing}
       /\ importing' = 0
       /\ IF r.thrown = "none"
          THEN pc' = "loop" /\ stack' = Advance(stack)
          ELSE pc' = "crashed" /\ stack' = <<>>
       /\ UNCHANGED <<lastIndex, ScanFrame>>

\* the import resolves; the controller's routes and resource are registered,
\* the router accepting every call or throwing on one of them
ImportResolves ==
    /\ pc = "import"
    /\ LET controller == ClassOf(tree[importing].kind)
           n == Len(RoutesToRegister(reflectMeta, controller))
           hasResource ==
               Truthy(getControllerMetadata(reflectMeta, REFLECT_RESOURCE_NAME_KEY, controller))
       IN \/ Processed(TRUE, 0, "ok")
          \/ \E throwAt \in 1..n : Processed(TRUE, throwAt, "ok")
          \/ \E outcome \in ResourceOutcomes(reflectMeta, controller) \ {"ok"} :
                hasResource /\ Processed(TRUE, 0, outcome)

\* the import rejects
ImportRejects ==
    /\ pc = "import"
    /\ Processed(FALSE, 0, "ok")

\* the listing is exhausted: the call returns to the directory above, or start() ends
ReturnFromDirectory ==
    /\ pc = "loop"
    /\ Top.idx > Len(Listing)
    /\ IF Len(stack) = 1
       THEN pc' = "done" /\ stack' = <<>>
       ELSE pc' = "loop" /\ stack' = Advance(SubSeq(stack, 1, Len(stack) - 1))
    /\ UNCHANGED <<importing, routerRoutes, failing, thrown, routerVars, reflectMeta, lastIndex, ScanFrame>>

\* a scan of readable directories
NextScan ==
    \/ Start
    \/ ReaddirResolves
    \/ EnterDirectory
    \/ SkipFile
    \/ BeginImport
    \/ ImportRejects
    \/ ImportResolves
    \/ ReturnFromDirectory

InitScan == InitScanWith(Trees, {"none"})

SpecScan == InitScan /\ [][NextScan]_vars

\* every awaited readdir and import settles
LiveScan == SpecScan /\ WF_vars(NextScan)

\* trees with a directory named like a controller file and a file the
\* override pattern matches, scanned without and with an override pattern
ClassifyKinds == {"ctldir", "other", "routes", "domain"}
ClassifyTrees == FewControllers(UNION {TreesOfLen(ClassifyKinds, n) : n \in 0..MaxEntries})
Configs == {"none", "regex", "regex_g"}

InitClassify == InitScanWith(ClassifyTrees, Configs)

SpecClassify == InitClassify /\ [][NextScan]_vars

\* a scan in which directory listings can fail
NextDiscovery == NextScan \/ ReaddirRejects

SpecDiscovery == InitScan /\ [][NextDiscovery]_vars

(***************************************************************************)
(* Properties of the Group Resolver                                        *)
(***************************************************************************)
HasDoubleSlash(s) == \E i \in 1..(Len(s) - 1) : s[i] = "/" /\ s[i + 1] = "/"

\* a prefix or pattern made of segments with optional leading / trailing slash
WellFormedPath(s) == ~HasDoubleSlash(s) /\ \E i \in 1..Len(s) : s[i] # "/"

StripTrailingSlash(s) == IF EndsWith(s, <<"/">>) THEN SubSeq(s, 1, Len(s) - 1) ELSE s
StripLeadingSlash(s) == IF StartsWith(s, <<"/">>) THEN Slice1(s) ELSE s
EnsureLeadingSlash(s) == IF StartsWith(s, <<"/">>) THEN s ELSE <<"/">> \o s

GroupPrefix == Prop(rin.group, "prefix")
GroupName == Prop(rin.group, "name")

\* C1: for every group prefix and route pattern, the resolved pattern starts
\* with '/', is the prefix without its trailing slash and the pattern without
\* its leading slash joined by exactly one '/', and holds no '//'
C1_PatternJoin ==
    (rpc # "declared" /\ HasGroup(rin.group) /\ Truthy(GroupPrefix)
        /\ WellFormedPath(GroupPrefix) /\ WellFormedPath(rin.route.pattern))
    => /\ StartsWith(finalRoute.pattern, <<"/">>)
       /\ finalRoute.pattern =
            EnsureLeadingSlash(StripTrailingSlash(GroupPrefix)) \o <<"/">>
                \o StripLeadingSlash(rin.route.pattern)
       /\ ~HasDoubleSlash(finalRoute.pattern)

\* C2 as claimed: without group name, group prefix and group middleware (an
\* empty group object included) the resolved route is the raw declaration
C2_IdentityAsClaimed ==
    (rpc # "declared" /\ ~Truthy(GroupPrefix) /\ ~Truthy(GroupName)
        /\ rin.groupMiddleware.kind = "absent")
    => finalRoute = rin.route

\* C2: without a group declaration and without group middleware the resolved
\* route is the raw declaration, field for field; with a group object that has
\* neither name nor prefix the method, pattern and where list are the raw ones,
\* the name is the explicit name or else the method identifier, and the
\* middleware is the route's own list (empty when the route has none)
C2_Identity ==
    (rpc # "declared" /\ ~Truthy(GroupPrefix) /\ ~Truthy(GroupName)
        /\ rin.groupMiddleware.kind = "absent")
    => IF ~HasGroup(rin.group)
       THEN finalRoute = rin.route
       ELSE /\ finalRoute.method = rin.route.method
            /\ finalRoute.pattern = rin.route.pattern
            /\ Prop(finalRoute, "where") = Prop(rin.route, "where")
            /\ finalRoute.name =
                 (IF Truthy(rin.route.name) THEN rin.route.name ELSE rin.methodName)
            /\ finalRoute.middleware =
                 (IF Prop(rin.route, "middleware") = UNDEF THEN <<>>
                  ELSE rin.route.middleware)

\* a route without name and middleware was resolved in a controller without group
C2_Witness ==
    /\ rpc = "registered"
    /\ ~HasGroup(rin.group)
    /\ rin.groupMiddleware.kind = "absent"
    /\ rin.route.name = UNDEF
    /\ "middleware" \notin DOMAIN rin.route
    /\ "where" \in DOMAIN rin.route

EffectiveName == IF Truthy(rin.route.name) THEN rin.route.name ELSE rin.methodName

\* C3: with a group name g a route resolves to g.<effective name>, or to the
\* effective name itself when that starts with "g." already, and resolving
\* the resolved route again leaves the name as it is
C3_NameIdempotent ==
    (rpc = "again" /\ HasGroup(rin.group) /\ Truthy(GroupName))
    => /\ finalRoute.name =
            (IF StartsWith(EffectiveName, GroupName \o <<".">>) THEN EffectiveName
             ELSE GroupName \o <<".">> \o EffectiveName)
       /\ StartsWith(finalRoute.name, GroupName \o <<".">>)
       /\ again.name = finalRoute.name

\* a route without explicit name was prefixed and resolved a second time
C3_Witness ==
    /\ rpc = "again"
    /\ HasGroup(rin.group)
    /\ GroupName = <<"g">>
    /\ rin.route.name = UNDEF
    /\ finalRoute.name = <<"g", ".">> \o rin.methodName

GroupMwList ==
    IF rin.groupMiddleware.kind = "absent" THEN <<>> ELSE rin.groupMiddleware.items
RouteMwList ==
    IF Prop(rin.route, "middleware") = UNDEF THEN <<>> ELSE rin.route.middleware
FinalMwList ==
    IF Prop(finalRoute, "middleware") = UNDEF THEN <<>> ELSE finalRoute.middleware

\* the arguments of the calls named fn, in call order
RECURSIVE ArgsOf(_, _)
ArgsOf(fn, calls) ==
    IF calls = <<>> THEN <<>>
    ELSE (IF Head(calls).fn = fn THEN <<Head(calls).arg>> ELSE <<>>)
         \o ArgsOf(fn, Tail(calls))

\* C4: the resolved middleware list is the group's entries, in their order,
\* followed by the route's own entries, in their order, nothing dropped or
\* repeated, and use() is called once per entry in that order
C4_MiddlewareOrder ==
    rpc # "declared"
    => /\ Len(FinalMwList) = Len(GroupMwList) + Len(RouteMwList)
       /\ \A i \in 1..Len(GroupMwList) : FinalMwList[i] = GroupMwList[i]
       /\ \A j \in 1..Len(RouteMwList) :
            FinalMwList[Len(GroupMwList) + j] = RouteMwList[j]
       /\ ArgsOf("use", handleCalls) = [i \in 1..Len(FinalMwList) |-> <<FinalMwList[i]>>]

\* a two-entry group list met a two-entry route list with different entries
C4_Witness ==
    /\ rpc = "registered"
    /\ rin.groupMiddleware = [kind |-> "array", items |-> <<"m1", "m2">>]
    /\ RouteMwList = <<"m2", "m1">>
    /\ Len(ArgsOf("use", handleCalls)) = 4

(***************************************************************************)
(* Properties of the declaration phase                                     *)
(***************************************************************************)
\* the annotations of one kind applied to method key of controller ctor
AnnotationsOn(ctor, key, kind) ==
    LET Test(e) == e.ctor = ctor /\ e.key = key /\ e.kind = kind
    IN SelectSeq(annotLog, Test)

ValuesOf(entries) == [i \in 1..Len(entries) |-> entries[i].arg.value]

\* the first name a verb write supplied, undefined when none did
RECURSIVE FirstSuppliedName(_)
FirstSuppliedName(verbWrites) ==
    IF verbWrites = <<>> THEN UNDEF
    ELSE IF Head(verbWrites).arg.name # UNDEF THEN Head(verbWrites).arg.name
    ELSE FirstSuppliedName(Tail(verbWrites))

StoredEntry(ctor, key) == EntryOf(RoutesOf(meta, ctor), key)

ListProp(entry, field) == IF field \in DOMAIN entry THEN entry[field] ELSE <<>>

\* C5 as claimed: method, pattern and name each hold the first value supplied
\* for them, so a name supplied after a nameless first write is stored
C5_FirstSuppliedWins ==
    \A ctor \in classes, key \in PropertyKeys :
        LET vs == AnnotationsOn(ctor, key, "verb")
        IN vs # <<>> =>
            /\ Prop(StoredEntry(ctor, key), "method") = vs[1].arg.method
            /\ Prop(StoredEntry(ctor, key), "pattern") = vs[1].arg.pattern
            /\ Prop(StoredEntry(ctor, key), "name") = FirstSuppliedName(vs)

\* C5: method, pattern and name hold what the first verb write for the method
\* gave, an omitted name included: later verb writes change none of the three
C5_FirstWriteWins ==
    \A ctor \in classes, key \in PropertyKeys :
        LET vs == AnnotationsOn(ctor, key, "verb")
        IN vs # <<>> =>
            /\ Prop(StoredEntry(ctor, key), "method") = vs[1].arg.method
            /\ Prop(StoredEntry(ctor, key), "pattern") = vs[1].arg.pattern
            /\ Prop(StoredEntry(ctor, key), "name") = vs[1].arg.name
            /\ "name" \in DOMAIN StoredEntry(ctor, key)

\* a nameless verb write came after a constraint and was followed by a verb
\* write with other verb, pattern and a name
C5_Witness ==
    LET vs == AnnotationsOn("A", "index", "verb")
    IN /\ Len(vs) = 2
       /\ vs[1].arg.name = UNDEF
       /\ vs[2].arg.name # UNDEF
       /\ vs[2].arg.method # vs[1].arg.method
       /\ vs[2].arg.pattern # vs[1].arg.pattern
       /\ annotLog[1].kind = "where"

\* C6: with one verb annotation on a method, in any interleaving with Where
\* and middleware annotations, the stored declaration has the verb's method
\* and pattern, every constraint in where and every middleware in middleware,
\* each list in order of application
C6_AnnotationsCombine ==
    \A ctor \in classes, key \in PropertyKeys :
        LET vs == AnnotationsOn(ctor, key, "verb")
            entry == StoredEntry(ctor, key)
        IN /\ Len(vs) = 1 =>
                /\ Prop(entry, "method") = vs[1].arg.method
                /\ Prop(entry, "pattern") = vs[1].arg.pattern
           /\ ListProp(entry, "where") = ValuesOf(AnnotationsOn(ctor, key, "where"))
           /\ ListProp(entry, "middleware") = ValuesOf(AnnotationsOn(ctor, key, "middleware"))

\* a constraint, the verb, a middleware and a second constraint, in that order
C6_Witness ==
    /\ Len(annotLog) = 4
    /\ annotLog[1].kind = "where"
    /\ annotLog[2].kind = "verb"
    /\ annotLog[3].kind = "middleware"
    /\ annotLog[4].kind = "where"
    /\ annotLog[4].arg.value # annotLog[1].arg.value

\* the store entries an annotation writes
WrittenKeys(e) ==
    CASE e.kind \in {"verb", "where", "middleware"} -> {"routes"}
      [] e.kind = "reflect" -> {REFLECT_RESOURCE_NAME_KEY, REFLECT_RESOURCE_PARAMS_KEY}
      [] e.key = "resource" -> {"resource", "resourceName"}
      [] OTHER -> {e.key}

\* the entries written for class c itself
KeysWrittenFor(c) ==
    UNION {WrittenKeys(annotLog[i]) : i \in {j \in 1..Len(annotLog) : annotLog[j].for = c}}

StoreKeys == {"routes", "group", "groupDomain", "resource", "resourceName", "resourceMiddleware"}
ReflectKeys == {REFLECT_RESOURCE_NAME_KEY, REFLECT_RESOURCE_PARAMS_KEY}

\* C7: a write for one controller changes what no other controller reads,
\* subclass and superclass included, and a controller reads the absent marker
\* under every key nothing was written for, through the store's get and
\* through the provider's metadata read alike
C7_Isolation ==
    \A c \in classes :
        /\ \A k \in StoreKeys \ KeysWrittenFor(c) : ~HasControllerMeta(meta, c, k)
        /\ \A k \in ReflectKeys \ KeysWrittenFor(c) :
              getControllerMetadata(reflectMeta, k, c) = UNDEF
        /\ c # lastFor =>
              /\ getAllControllerMeta(meta, c) = getAllControllerMeta(beforeMeta, c)
              /\ \A k \in ReflectKeys :
                    getControllerMetadata(reflectMeta, k, c)
                        = getControllerMetadata(beforeReflect, k, c)

\* C7, the store alone: getControllerMeta is keyed by the exact class
C7_StoreIsolation ==
    \A c \in classes :
        /\ \A k \in StoreKeys \ KeysWrittenFor(c) : ~HasControllerMeta(meta, c, k)
        /\ c # lastFor =>
              getAllControllerMeta(meta, c) = getAllControllerMeta(beforeMeta, c)

(***************************************************************************)
(* Properties of the Resource Expander                                     *)
(***************************************************************************)
FilterCalls(resource) ==
    LET Test(c) == c.fn \in {"apiOnly", "only", "except"}
    IN SelectSeq(resource.calls, Test)

\* C8: whatever combination of apiOnly / only / except a controller declares,
\* at most one of apiOnly(), only(list), except(list) is called on its handle
C8_AtMostOneFilter ==
    \A i \in 1..Len(routerResources) : Len(FilterCalls(routerResources[i])) <= 1

\* the filters declared on controller A
DeclaredFilters ==
    {k \in {REFLECT_RESOURCE_API_ONLY_KEY, REFLECT_RESOURCE_ONLY_KEY,
            REFLECT_RESOURCE_EXCEPT_KEY} : hasMetadata(reflectMeta, k, "A")}

\* C9: a resource with exactly one filter, the router having accepted the
\* calls on its handle, registers exactly the listed
\* actions for only(list), the seven minus the listed ones for except(list)
\* and index, store, show, update, destroy for apiOnly, named <name>.<action>
C9_FilterResults ==
    \A i \in 1..Len(routerResources) :
        LET res == routerResources[i]
            expected ==
                CASE DeclaredFilters = {REFLECT_RESOURCE_ONLY_KEY} ->
                        getControllerMetadata(reflectMeta, REFLECT_RESOURCE_ONLY_KEY, "A")
                  [] DeclaredFilters = {REFLECT_RESOURCE_EXCEPT_KEY} ->
                        CanonicalActions \
                            getControllerMetadata(reflectMeta, REFLECT_RESOURCE_EXCEPT_KEY, "A")
                  [] OTHER -> {"index", "store", "show", "update", "destroy"}
        IN (Cardinality(DeclaredFilters) = 1 /\ res.configured) =>
            /\ RegisteredActions(res) = expected
            /\ RegisteredNames(res) = {res.name \o <<".", a>> : a \in expected}

\* only(['update', 'destroy']) was the one filter of a registered resource
C9_Witness ==
    /\ Len(routerResources) = 1
    /\ DeclaredFilters = {REFLECT_RESOURCE_ONLY_KEY}
    /\ reflectMeta["A"][REFLECT_RESOURCE_ONLY_KEY] = {"update", "destroy"}
    /\ RegisteredNames(routerResources[1]) =
            {<<"r", ".", "update">>, <<"r", ".", "destroy">>}

(***************************************************************************)
(* Properties of the Controller Scanner                                    *)
(***************************************************************************)
\* the controller candidates of the tree
Candidates ==
    {i \in 1..Len(tree) :
        ~isDirectory(tree[i].kind)
            /\ isControllerFile(config, 0, FileNameOf(tree[i].kind)).candidate}

\* the routes the router holds for the controller file at position i
RoutesFrom(i) ==
    LET Test(r) == r.file = i
    IN SelectSeq(routerRoutes, Test)

\* every route the controller of file i declares was submitted, in order, and
\* its resource, if it declares one, was registered
FullyRegistered(i) ==
    LET controller == ClassOf(tree[i].kind)
        declared == RoutesToRegister(reflectMeta, controller)
        got == RoutesFrom(i)
    IN /\ Len(got) = Len(declared)
       /\ \A k \in 1..Len(got) : got[k].created.handler = <<i, declared[k].key>>
       /\ Truthy(getControllerMetadata(reflectMeta, REFLECT_RESOURCE_NAME_KEY, controller))
            => \E k \in 1..Len(routerResources) : routerResources[k].controller = i

Reported(i) == \E k \in 1..Len(logs) : logs[k].file = i

\* the scan ended normally, every candidate that did not fail is fully
\* registered and every failure was reported
ScanCompleted ==
    /\ pc = "done"
    /\ thrown = "none"
    /\ \A i \in Candidates \ failing : FullyRegistered(i)
    /\ \A i \in failing : Reported(i)

\* C10: whichever controller files fail to load or to register, in whatever
\* tree, no error leaves start(), and the scan eventually ends normally with
\* every other candidate loaded and registered and each failure logged
C10_LoadFailureIsolation ==
    /\ [](thrown = "none" /\ pc # "crashed")
    /\ <>ScanCompleted

\* a controller file in one directory failed, and a candidate listed after it
\* in a sibling directory is registered
C10_Witness ==
    /\ ScanCompleted
    /\ \E f \in failing : \E b \in Candidates \ failing :
        /\ f < b
        /\ ParentPos(tree, f) # 0
        /\ ParentPos(tree, b) # 0
        /\ ParentPos(tree, b) # ParentPos(tree, f)
        /\ Reported(f)
        /\ FullyRegistered(b)

\* the load or the registration of the controller file at position i threw
\* and #processControllerFile caught it
LoadFailed(i) ==
    \E k \in 1..Len(logs) :
        logs[k].file = i /\ logs[k].msg = "Error processing controller file"

\* C11: a candidate whose import failed, or whose registration threw at any
\* point, has no route in the router: nothing submitted before the throw stays
C11_ZeroRoutes ==
    \A i \in Candidates : LoadFailed(i) => RoutesFrom(i) = <<>>

\* the resource registration of the controller file at position i threw with
\* one of the given errors and #registerResourceRoutes caught it
ResourceFailed(i, errors) ==
    \E k \in 1..Len(logs) :
        /\ logs[k].file = i
        /\ logs[k].msg = "Error registering resource routes"
        /\ logs[k].error \in errors

\* the routes the controller of file i declares, resolved, all in the router
RoutesAsResolved(i) ==
    RoutesFrom(i) =
        registerControllerRoutes(reflectMeta, ClassOf(tree[i].kind), i, 0, 1, <<>>).routes

ResourceContained(i) ==
    /\ \A k \in 1..Len(routerResources) : routerResources[k].controller # i
    /\ RoutesAsResolved(i)
    /\ thrown = "none"
    /\ pc # "crashed"

\* C12: when router.resource or a call on the resource handle throws for a
\* controller, the error is logged, the router holds no resource of that
\* controller, its ordinary routes are all registered as resolved and the
\* scan goes on
C12_ResourceFailureContained ==
    \A i \in Candidates : ResourceFailed(i, {"resource", "handle"}) => ResourceContained(i)

\* the same, for a throw of router.resource itself
C12_PrimitiveFailureContained ==
    \A i \in Candidates : ResourceFailed(i, {"resource"}) => ResourceContained(i)

\* the step is the listing of the innermost directory resolving
ListingResolved == pc' = "loop" /\ Len(stack') = Len(stack)

\* the step ends start() with the listing error: nothing is logged, the router
\* keeps what it held, which is nothing of a candidate listed after the
\* directory and nothing at all when the directory is the controllers root
FatalListingFailure ==
    /\ pc' = "crashed"
    /\ thrown' = "readdir"
    /\ logs' = logs
    /\ routerRoutes' = routerRoutes
    /\ routerResources' = routerResources
    /\ Top.dir = 0 => routerRoutes' = <<>> /\ routerResources' = <<>>
    /\ \A i \in Candidates : i > Top.dir =>
            /\ \A k \in 1..Len(routerRoutes') : routerRoutes'[k].file # i
            /\ \A k \in 1..Len(routerResources') : routerResources'[k].controller # i

\* C13: a listing that does not resolve, of the root or of a nested
\* directory, ends start() with the error, unlogged; the scan takes no step
\* afterwards, so unvisited candidates are never processed and the routes
\* submitted before stay
C13_ListingFailureFatal ==
    [][/\ pc # "crashed"
       /\ (pc = "readdir" /\ ~ListingResolved) => FatalListingFailure]_vars

\* the listing of a nested directory failed after a controller was registered
\* and before another candidate was visited
C13_Witness ==
    /\ pc = "crashed"
    /\ thrown = "readdir"
    /\ routerRoutes # <<>>
    /\ \E i \in Candidates : RoutesFrom(i) = <<>> /\ ~Reported(i)

(***************************************************************************)
(* Properties of the resource name                                         *)
(***************************************************************************)
\* controller A's resource declaration names its routes otherwise than by
\* its base pattern
NameOverridden ==
    /\ HasControllerMeta(meta, "A", "resourceName")
    /\ getControllerMeta(meta, "A", "resourceName") # getControllerMeta(meta, "A", "resource")

\* C14: a resource declared with a name distinct from its base pattern is
\* submitted with the base pattern, and as(name) is called on the handle
C14_NameOverride ==
    \A i \in 1..Len(routerResources) :
        (NameOverridden /\ routerResources[i].configured) =>
            /\ routerResources[i].name = getControllerMeta(meta, "A", "resource")
            /\ \E k \in 1..Len(routerResources[i].calls) :
                    routerResources[i].calls[k] =
                        [fn |-> "as", arg |-> getControllerMeta(meta, "A", "resourceName")]

(***************************************************************************)
(* Further properties of the Group Resolver                                *)
(***************************************************************************)
\* C15: under a group with prefix p and name n every route resolves to a
\* pattern starting with p and a name starting with "n."; a route with
\* pattern "/" and no name resolves to the pattern p, without trailing slash,
\* and the name n.<method>
C15_RootPattern ==
    (rpc # "declared" /\ HasGroup(rin.group) /\ Truthy(GroupPrefix) /\ Truthy(GroupName))
    => /\ StartsWith(finalRoute.pattern, GroupPrefix)
       /\ StartsWith(finalRoute.name, GroupName \o <<".">>)
       /\ (rin.route.pattern = <<"/">> /\ rin.route.name = UNDEF)
            => /\ finalRoute.pattern = GroupPrefix
               /\ finalRoute.name = GroupName \o <<".">> \o rin.methodName

\* the domain calls made on the route handle, and the other calls
DomainCalls(calls) ==
    LET Test(c) == c.fn = "domain"
    IN SelectSeq(calls, Test)

OtherCalls(calls) ==
    LET Test(c) == c.fn # "domain"
    IN SelectSeq(calls, Test)

\* C16: a declared group domain is set on the route, unchanged, with or
\* without group name, prefix or middleware; without a declared domain no
\* domain call is made; pattern, name, middleware and the other calls are the
\* same whatever the domain
C16_DomainPassThrough ==
    rpc # "declared" =>
        /\ DomainCalls(handleCalls) =
            (IF rin.groupDomain = UNDEF THEN <<>>
             ELSE <<[fn |-> "domain", arg |-> rin.groupDomain]>>)
        /\ \A d \in {UNDEF} \cup Domains :
            LET r == registerSingleRoute("C", rin.methodName, rin.route, rin.group,
                                         rin.groupMiddleware, d)
            IN /\ r.final = finalRoute
               /\ r.created = routerRoute
               /\ OtherCalls(r.calls) = OtherCalls(handleCalls)

\* a route without group declaration and group middleware got the domain
C16_Witness ==
    /\ rpc = "registered"
    /\ ~HasGroup(rin.group)
    /\ rin.groupMiddleware.kind = "absent"
    /\ finalRoute = rin.route
    /\ rin.groupDomain = <<"d">>
    /\ DomainCalls(handleCalls) = <<[fn |-> "domain", arg |-> <<"d">>]>>

(***************************************************************************)
(* Properties of the classification                                        *)
(***************************************************************************)
\* the entries #processControllerFile was called for
Visited == failing \cup {routerRoutes[k].file : k \in 1..Len(routerRoutes)}

\* the rule: without override the name ends with _controller.ts or
\* _controller.js, with an override the pattern matches the name
CandidateByRule(i) ==
    /\ ~isDirectory(tree[i].kind)
    /\ IF config = "none"
       THEN EndsWith(FileNameOf(tree[i].kind), <<"_controller", ".ts">>)
                \/ EndsWith(FileNameOf(tree[i].kind), <<"_controller", ".js">>)
       ELSE MatchesGlob(FileNameOf(tree[i].kind))

\* C17: the files processed by a scan are exactly the files the rule in force
\* names, in directories of whatever name, and no directory is processed
C17_Classification ==
    pc = "done" => Visited = {i \in 1..Len(tree) : CandidateByRule(i)}

\* the same, for the suffix rule and for override patterns without the g flag
C17_StatelessClassification ==
    (pc = "done" /\ config # "regex_g") => Visited = {i \in 1..Len(tree) : CandidateByRule(i)}

(***************************************************************************)
(* Properties of the registration of one controller                        *)
(***************************************************************************)
\* the import of the controller file at position i resolved
Loaded(i) == \A k \in 1..Len(logs) : ~(logs[k].file = i /\ logs[k].error = "import")

\* router.route threw for a route of the controller file at position i
RouteFailed(i) == \E k \in 1..Len(logs) : logs[k].file = i /\ logs[k].error = "route"

\* the controller of file i carries a resource declaration
DeclaresResource(i) ==
    Truthy(getControllerMetadata(reflectMeta, REFLECT_RESOURCE_NAME_KEY, ClassOf(tree[i].kind)))

\* router.resource was called for the controller of file i
ResourceSubmitted(i) ==
    \/ \E k \in 1..Len(routerResources) : routerResources[k].controller = i
    \/ ResourceFailed(i, {"resource", "handle"})

\* C18: after the scan, every loaded controller with a resource declaration
\* had its base pattern submitted to router.resource whatever became of its
\* ordinary routes, and every loaded controller had its ordinary routes
\* submitted whatever became of its resource
C18_Independent ==
    pc = "done" =>
        \A i \in Candidates : Loaded(i) =>
            /\ DeclaresResource(i) => ResourceSubmitted(i)
            /\ ~RouteFailed(i) => RoutesAsResolved(i)

(***************************************************************************)
(* Properties of the order of the scan                                     *)
(***************************************************************************)
Nondecreasing(s) == \A k \in 1..(Len(s) - 1) : s[k] <= s[k + 1]

\* the files of the router.route calls, of the router.resource calls and of
\* the logged errors, in the order they were made
RouteCallFiles == [k \in 1..Len(routerRoutes) |-> routerRoutes[k].file]
ResourceCallFiles == [k \in 1..Len(routerResources) |-> routerResources[k].controller]
LoggedFiles == [k \in 1..Len(logs) |-> logs[k].file]

\* every entry listed before position i, in depth-first listing order, is
\* dealt with: a candidate is registered or reported
DoneBefore(i) ==
    \A j \in Candidates : j < i =>
        \/ j \in failing
        \/ FullyRegistered(j)

\* nothing was submitted or logged for position i or a later one
NothingFrom(i) ==
    /\ \A k \in 1..Len(routerRoutes) : routerRoutes[k].file < i
    /\ \A k \in 1..Len(routerResources) : routerResources[k].controller < i
    /\ \A k \in 1..Len(logs) : logs[k].file < i

\* C19: a load is in flight only while the scan waits for it, one at a time;
\* when the load of a candidate starts, all calls for the candidates listed
\* before it (depth first) are finished and none for it or a later one was
\* made; so the router calls follow the depth-first listing order
C19_Sequential ==
    /\ importing # 0 <=> pc = "import"
    /\ pc = "import" => DoneBefore(importing) /\ NothingFrom(importing)
    /\ Nondecreasing(RouteCallFiles)
    /\ Nondecreasing(ResourceCallFiles)
    /\ Nondecreasing(LoggedFiles)
    /\ pc = "done" => DoneBefore(Len(tree) + 1)

\* a controller in a subdirectory is registered and the scan waits for the
\* load of the controller listed after that subdirectory
C19_Witness ==
    /\ pc = "import"
    /\ \E i \in Candidates :
        /\ i < importing
        /\ tree[i].depth > tree[importing].depth
        /\ FullyRegistered(i)
        /\ RouteCallFiles # <<>>

====
